---- MODULE Spec2Model ----
(***************************************************************************)
(* Velocity Type: the session controller of src/App.tsx (the App component *)
(* of lines 1-490), the peer service of src/services/multiplayerService.ts *)
(* and the content provider of services/geminiService (src/unnamed/        *)
(* part_007), as one state machine.                                        *)
(*                                                                         *)
(* One App instance is modelled.  The remote peer is the environment: it   *)
(* may connect, drop the connection and deliver any GameMessage.           *)
(*                                                                         *)
(* Every action is one event-loop task: the handler, the React render it   *)
(* schedules and the effects of that render (statsRef sync, the two        *)
(* setInterval effects), see Effects.                                      *)
(*                                                                         *)
(* Strings are sequences of one-character strings.  Times are in           *)
(* milliseconds.  Only differences of Date.now() readings are ever used by *)
(* the program, so the clock is re-based to Epoch whenever a session       *)
(* starts.  Rationals (progress) are pairs <<numerator, denominator>>.     *)
(* A nullable object (analysisData, the pending fetch) is a sequence of    *)
(* length 0 or 1.                                                          *)
(***************************************************************************)
EXTENDS Integers, Sequences, FiniteSets, TLC

\* ------------------------------------------------------------ constants
GAME_DURATION == 120

TickMs == 500

SyncMs == 500

Epoch == 1000

Cleared == -1

Undefined == -1

\* a timestamp that is null (useState<number | null>(null))
NoTime == 0

\* ------------------------------------------------------------ bounds
MaxInputLen == 2

MaxTyped == 3

MaxRaceTyped == 2

MaxHist == 1

MaxConns == 1
MaxLobbyConns == 2

MaxPaceTyped == 6

MaxPaceHist == 12

\* ------------------------------------------------------------ data
Null == "null"

GameStatus == {"IDLE", "LOADING", "PLAYING", "FINISHED"}

Difficulty == {"EASY", "MEDIUM", "HARD", "EXPERT"}

MultiplayerMode == {"SINGLE", "HOST", "CLIENT"}

MessageType == {"INIT", "START", "UPDATE", "FINISH"}

\* the difficulty the model's player picks, and the one its remote host announces
PickedDifficulty == {"HARD"}

HostDifficulty == {"EASY"}

\* the characters of the model's sentences and keystrokes
Chars == {"a", "b", "B"}

\* what fetchSentences resolves to: a parsed API answer (any JSON array of
\* strings, the empty one included) or the fallback corpus of the tier
Corpus == { <<>>, << <<"a", "b">> >>, << <<"a", "b">>, <<"B">> >> }

RECURSIVE StringsUpTo(_)
StringsUpTo(n) ==
    IF n = 0 THEN {<<>>}
    ELSE LET shorter == StringsUpTo(n - 1)
         IN  shorter \cup {Append(s, c) : s \in {t \in shorter : Len(t) = n - 1}, c \in Chars}

\* the values an input event can carry
Inputs == StringsUpTo(MaxInputLen)

\* the smaller sets the whole-system specification draws from
RaceCorpus == { << <<"a">>, <<"b">> >> }

HostCorpus == { << <<"b">> >> }

RaceInputs == { <<>>, <<"a">>, <<"b">> }

\* the sentence of the paced session, "go now", and the inputs that type it
\* without a mistake: its prefixes
PaceSentence == <<"g", "o", " ", "n", "o", "w">>

PaceCorpus == { <<PaceSentence>> }

PaceInputs == { SubSeq(PaceSentence, 1, k) : k \in 0..Len(PaceSentence) }

\* faulty variant of toLowerCase: the key keeps its case
KeepCase(c) == c

toLowerCase(c) == IF c = "A" THEN "a" ELSE IF c = "B" THEN "b" ELSE c

\* faulty variant of Round: Math.floor(a / b)
Floor(a, b) == a \div b

\* Math.round(a / b) for a >= 0, b > 0
Round(a, b) == (2 * a + b) \div (2 * b)

\* Math.ceil(a / b) for a >= 0, b > 0
Ceil(a, b) == (a + b - 1) \div b

Max(a, b) == IF a > b THEN a ELSE b

Min(a, b) == IF a < b THEN a ELSE b

RatEq(p, q) == p[1] * q[2] = q[1] * p[2]

\* the keys an ErrorMap entry can have in the model
Keys == Chars \cup {"A", "B"}

\* errorsRef.current = {}: a key that is absent reads as 0
NoErrors == [k \in Keys |-> 0]

\* App.tsx 37: the car of this player, its identity in INIT and UPDATE
myCar == "audi"

NoOpponent == [wpm |-> 0, progress |-> <<0, 1>>, carModel |-> myCar]

\* a message whose sender has the given car (hostCar of INIT, carModel of UPDATE)
MsgFrom(t, s, d, w, p, car) ==
    [type |-> t, sentences |-> s, difficulty |-> d, wpm |-> w, progress |-> p,
     carModel |-> car]

\* a message of a player of this build
Msg(t, s, d, w, p) == MsgFrom(t, s, d, w, p, myCar)

\* the messages the remote peer may deliver
RemoteMessages ==
    {Msg("INIT", s, d, 0, <<0, 1>>) : s \in HostCorpus, d \in HostDifficulty}
    \cup {Msg("UPDATE", <<>>, Null, 40, <<2, 10>>)}
    \cup {Msg("FINISH", <<>>, Null, 40, <<0, 1>>), Msg("START", <<>>, Null, 0, <<0, 1>>)}

\* the messages of a remote host with another car: its INIT, two UPDATEs of
\* which the one with less progress may arrive last, a FINISH and a START
PeerCar == "bmw"

PeerMessages ==
    {MsgFrom("INIT", s, d, 0, <<0, 1>>, PeerCar) : s \in HostCorpus, d \in HostDifficulty}
    \cup {MsgFrom("UPDATE", <<>>, Null, 40, <<2, 10>>, PeerCar),
          MsgFrom("UPDATE", <<>>, Null, 30, <<1, 10>>, PeerCar)}
    \cup {MsgFrom("FINISH", <<>>, Null, 40, <<0, 1>>, PeerCar),
          MsgFrom("START", <<>>, Null, 0, <<0, 1>>, PeerCar)}

VARIABLES
    status, difficulty, sentences, currentSentenceIndex, userInput,
    startTime, endTime, totalCharsTyped, correctChars, timeRemaining,
    historyRef, errorsRef, peakWpmRef, analysisData,
    mpMode, isConnected, opponentStats, waitingForHostStart,
    statsRef,
    peer, peerIsHost, conn, conns,
    fetchPending, pendingInit,
    now, tickTimer, syncTimer,
    sent, thrown

sessionVars == <<status, difficulty, sentences, currentSentenceIndex, userInput,
                 startTime, endTime, totalCharsTyped, correctChars, timeRemaining>>

analysisVars == <<historyRef, errorsRef, peakWpmRef, analysisData>>

mpVars == <<mpMode, isConnected, opponentStats, waitingForHostStart>>

svcVars == <<peer, peerIsHost, conn, conns>>

vars == <<sessionVars, analysisVars, mpVars, statsRef, svcVars, fetchPending,
          pendingInit, now, tickTimer, syncTimer, sent, thrown>>

\* the connection objects the page can be given
ConnIds == DOMAIN conns

\* ------------------------------------------------------------ derived values
\* faulty variant of calculateWPM: the end of the session is ignored and the
\* time is always measured to now
calculateWPMToNow ==
    IF startTime = NoTime THEN 0
    ELSE LET ms == now - startTime
         IN  IF ms <= 0 THEN 0 ELSE Round(correctChars * 12000, ms)

\* App.tsx 59-65
calculateWPM ==
    IF startTime = NoTime THEN 0
    ELSE LET ms == (IF endTime # NoTime THEN endTime ELSE now) - startTime
         IN  IF ms <= 0 THEN 0 ELSE Round(correctChars * 12000, ms)

\* App.tsx 67-70
calculateAccuracy ==
    IF totalCharsTyped = 0 THEN 100 ELSE Round(correctChars * 100, totalCharsTyped)

\* faulty variant of progress: the division by sentences.length is missing
progressOfSentence ==
    IF Len(sentences) > 0
    THEN LET target == sentences[currentSentenceIndex + 1]
         IN  <<currentSentenceIndex * Len(target) + Len(userInput), Len(target)>>
    ELSE <<0, 1>>

\* App.tsx 72-74
progress ==
    IF Len(sentences) > 0
    THEN LET target == sentences[currentSentenceIndex + 1]
         IN  <<currentSentenceIndex * Len(target) + Len(userInput), Len(target) * Len(sentences)>>
    ELSE <<0, 1>>

\* faulty variant of ConnOpen: the open flag of the connection is not read
ConnAssigned == conn # 0

\* this.conn && this.conn.open
ConnOpen == conn # 0 /\ conns[conn] = "open"

\* ------------------------------------------------------------ initial state
\* the page after construction, where at most maxConns connections can be made
InitOf(maxConns) ==
    /\ status = "IDLE"
    /\ difficulty = "MEDIUM"
    /\ sentences = <<>>
    /\ currentSentenceIndex = 0
    /\ userInput = <<>>
    /\ startTime = NoTime
    /\ endTime = NoTime
    /\ totalCharsTyped = 0
    /\ correctChars = 0
    /\ timeRemaining = GAME_DURATION
    /\ historyRef = <<>>
    /\ errorsRef = NoErrors
    /\ peakWpmRef = 0
    /\ analysisData = <<>>
    /\ mpMode = "SINGLE"
    /\ isConnected = FALSE
    /\ opponentStats = NoOpponent
    /\ waitingForHostStart = FALSE
    /\ statsRef = [correctChars |-> 0, totalCharsTyped |-> 0, opponentStats |-> NoOpponent]
    /\ peer = Null
    /\ peerIsHost = FALSE
    /\ conn = 0
    /\ conns = [c \in 1..maxConns |-> "none"]
    /\ fetchPending = <<>>
    /\ pendingInit = "none"
    /\ now = Epoch
    /\ tickTimer = Cleared
    /\ syncTimer = Cleared
    /\ sent = <<>>
    /\ thrown = FALSE

Init == InitOf(MaxConns)

\* ------------------------------------------------------------ render and effects
\* faulty variant of TickDepsSame: status is missing from the dependencies
TickDepsWithoutStatus == <<startTime, mpMode>>' = <<startTime, mpMode>>

\* faulty variant of TickDepsSame: the Timer & History Loop depends on the
\* counter too, as Sync Multiplayer Data does through calculateWPM
TickDepsWithCounter ==
    <<status, startTime, mpMode, correctChars>>' = <<status, startTime, mpMode, correctChars>>

\* the dependency lists of the two interval effects (App.tsx 157 and 88);
\* calculateWPM is a new function when startTime, endTime or correctChars change
TickDepsSame == <<status, startTime, mpMode>>' = <<status, startTime, mpMode>>

SyncDepsSame ==
    /\ <<status, mpMode, startTime, endTime, correctChars>>'
         = <<status, mpMode, startTime, endTime, correctChars>>
    /\ RatEq(progress', progress)

\* faulty variant of SyncStats: the effect is missing and the loop reads the
\* object made when the component was set up
StatsNeverSynced == UNCHANGED statsRef

\* App.tsx 54-56: Keep statsRef synced with state
SyncStats ==
    statsRef' = [correctChars |-> correctChars', totalCharsTyped |-> totalCharsTyped',
                 opponentStats |-> opponentStats']

\* The render that follows a handler and the effects of that render.
\* restarted: setStartTime stored a new Date.now() reading; tickIfKept and
\* syncIfKept: what the timers read if their effect does not run again.
Effects(restarted, tickIfKept, syncIfKept) ==
    /\ SyncStats
    /\ tickTimer' = IF TickDepsSame /\ ~restarted THEN tickIfKept
                    ELSE IF status' = "PLAYING" /\ startTime' # NoTime THEN TickMs ELSE Cleared
    /\ syncTimer' = IF SyncDepsSame /\ ~restarted THEN syncIfKept
                    ELSE IF status' = "PLAYING" /\ mpMode' # "SINGLE" THEN SyncMs ELSE Cleared

\* a handler that starts no timer of its own
Render == Effects(FALSE, tickTimer, syncTimer)

\* ------------------------------------------------------------ session controller
\* faulty variant of startLocalGame: the sentence index and the counters
\* of the session before are kept
startLocalGameKeepingScore ==
    /\ status' = "PLAYING"
    /\ startTime' = Epoch
    /\ now' = Epoch
    /\ timeRemaining' = GAME_DURATION
    /\ userInput' = <<>>
    /\ endTime' = NoTime
    /\ historyRef' = <<>>
    /\ errorsRef' = NoErrors
    /\ peakWpmRef' = 0
    /\ analysisData' = <<>>
    /\ UNCHANGED <<currentSentenceIndex, totalCharsTyped, correctChars>>

\* faulty variant of startLocalGame: setCorrectChars(0) is missing
startLocalGameKeepingCorrect ==
    /\ status' = "PLAYING"
    /\ startTime' = Epoch
    /\ now' = Epoch
    /\ timeRemaining' = GAME_DURATION
    /\ userInput' = <<>>
    /\ currentSentenceIndex' = 0
    /\ totalCharsTyped' = 0
    /\ endTime' = NoTime
    /\ historyRef' = <<>>
    /\ errorsRef' = NoErrors
    /\ peakWpmRef' = 0
    /\ analysisData' = <<>>
    /\ UNCHANGED correctChars

\* App.tsx 198-214
startLocalGame ==
    /\ status' = "PLAYING"
    /\ startTime' = Epoch
    /\ now' = Epoch
    /\ timeRemaining' = GAME_DURATION
    /\ userInput' = <<>>
    /\ currentSentenceIndex' = 0
    /\ totalCharsTyped' = 0
    /\ correctChars' = 0
    /\ endTime' = NoTime
    /\ historyRef' = <<>>
    /\ errorsRef' = NoErrors
    /\ peakWpmRef' = 0
    /\ analysisData' = <<>>

\* faulty variants of CanSelectDifficulty: the guard forgets the role of a
\* connected player, or the connection of a host
CanSelectWhenConnected == mpMode = "SINGLE" \/ isConnected

CanSelectAsAnyHost == mpMode = "SINGLE" \/ mpMode = "HOST"

\* App.tsx 415: the difficulty buttons are rendered
CanSelectDifficulty == mpMode = "SINGLE" \/ (mpMode = "HOST" /\ isConnected)

\* faulty variant of InitMessage: the payload is read from the sentences
\* state, which still holds the list of the render that made the closure
InitMessageFromState(data, selectedDifficulty) ==
    Msg("INIT", sentences, selectedDifficulty, 0, <<0, 1>>)

\* App.tsx 187-192: the INIT the host hands to send
InitMessage(data, selectedDifficulty) == Msg("INIT", data, selectedDifficulty, 0, <<0, 1>>)

\* App.tsx 179-184 and 424: a difficulty button is clicked; up to the await
StartGameWithDifficulty(selectedDifficulty) ==
    /\ status = "IDLE"
    /\ CanSelectDifficulty
    /\ difficulty' = selectedDifficulty
    /\ status' = "LOADING"
    /\ fetchPending' = <<[difficulty |-> selectedDifficulty, mpMode |-> mpMode]>>
    /\ sent' = <<>>
    /\ thrown' = FALSE
    /\ UNCHANGED <<sentences, currentSentenceIndex, userInput, startTime, endTime,
                   totalCharsTyped, correctChars, timeRemaining, analysisVars, mpVars,
                   svcVars, pendingInit, now>>
    /\ Render

\* App.tsx 184-196: fetchSentences resolved with data; mpMode is the one the
\* closure captured at the click
ContentReady(data) ==
    /\ fetchPending # <<>>
    /\ sentences' = data
    /\ sent' = IF fetchPending[1].mpMode = "HOST" /\ ConnOpen
               THEN <<InitMessage(data, fetchPending[1].difficulty)>>
               ELSE <<>>
    /\ startLocalGame
    /\ fetchPending' = <<>>
    /\ thrown' = FALSE
    /\ UNCHANGED <<difficulty, mpVars, svcVars, pendingInit>>
    /\ Effects(TRUE, tickTimer, syncTimer)

\* faulty variant of FinishMessage: the FINISH carries the peak wpm
FinishMessageWithPeak(finalWpm) == Msg("FINISH", <<>>, Null, peakWpmRef', <<0, 1>>)

\* App.tsx 241: the FINISH handed to send
FinishMessage(finalWpm) == Msg("FINISH", <<>>, Null, finalWpm, <<0, 1>>)

\* App.tsx 216-243, called by the tick
endGame ==
    LET end == now
        finalCorrect == statsRef.correctChars
        finalTotal == statsRef.totalCharsTyped
        elapsedMs == IF startTime # NoTime THEN end - startTime ELSE 0
        finalWpm == IF elapsedMs > 0 THEN Round(finalCorrect * 12000, elapsedMs) ELSE 0
        finalAcc == IF finalTotal > 0 THEN Round(finalCorrect * 100, finalTotal) ELSE 100
    IN  /\ endTime' = end
        /\ status' = "FINISHED"
        /\ analysisData' = <<[history |-> historyRef', errors |-> errorsRef,
                              avgWpm |-> finalWpm, peakWpm |-> peakWpmRef',
                              totalTime |-> elapsedMs, accuracy |-> finalAcc,
                              difficulty |-> difficulty]>>
        /\ sent' = IF mpMode # "SINGLE" /\ ConnOpen
                   THEN <<FinishMessage(finalWpm)>>
                   ELSE <<>>

\* faulty variants of TimeExpired: the comparison reads the first sample as
\* the last, or can never be true of a value that Math.max keeps at 0 or more
ExpiredAtOnce(remainingMs) == remainingMs <= GAME_DURATION * 1000

NeverExpired(remainingMs) == remainingMs < 0

\* App.tsx 151
TimeExpired(remainingMs) == remainingMs <= 0

\* faulty variant of UpdatePeak: the peak is the wpm of the last sample
LastAsPeak(peak, currentWpm) == currentWpm

\* App.tsx 143
UpdatePeak(peak, currentWpm) == IF currentWpm > peak THEN currentWpm ELSE peak

\* App.tsx 129-154: the interval callback of the Timer & History Loop
Tick ==
    /\ tickTimer = 0
    /\ LET elapsedMs == now - startTime
           remainingMs == Max(0, GAME_DURATION * 1000 - elapsedMs)
           currentWpm == IF elapsedMs > 0
                         THEN Round(statsRef.correctChars * 12000, elapsedMs) ELSE 0
       IN  /\ timeRemaining' = Ceil(remainingMs, 1000)
           /\ peakWpmRef' = UpdatePeak(peakWpmRef, currentWpm)
           /\ historyRef' = Append(historyRef,
                  [time |-> elapsedMs, wpm |-> currentWpm,
                   opponentWpm |-> IF mpMode # "SINGLE"
                                   THEN statsRef.opponentStats.wpm ELSE Undefined])
           /\ IF TimeExpired(remainingMs)
              THEN endGame
              ELSE /\ sent' = <<>>
                   /\ UNCHANGED <<endTime, status, analysisData>>
    /\ thrown' = FALSE
    /\ UNCHANGED <<difficulty, sentences, currentSentenceIndex, userInput, startTime,
                   totalCharsTyped, correctChars, errorsRef, mpVars, svcVars,
                   fetchPending, pendingInit, now>>
    /\ Effects(FALSE, TickMs, syncTimer)

\* App.tsx 79-85: the interval callback of Sync Multiplayer Data
SyncFire ==
    /\ syncTimer = 0
    /\ sent' = IF ConnOpen
               THEN <<Msg("UPDATE", <<>>, Null, calculateWPM, progress)>>
               ELSE <<>>
    /\ thrown' = FALSE
    /\ UNCHANGED <<sessionVars, analysisVars, mpVars, svcVars, fetchPending,
                   pendingInit, now>>
    /\ Effects(FALSE, tickTimer, SyncMs)

\* faulty variant of AcceptsInput: the status check of line 254 is missing
AcceptsInAnyStatus == Len(sentences) > 0

\* App.tsx 254: the handler goes on
AcceptsInput == ~(status # "PLAYING" \/ Len(sentences) = 0)

\* faulty variant of CharAdded: an input of the same length is scored too
CharAddedOrReplaced(input) == Len(input) >= Len(userInput) /\ Len(input) > 0

\* App.tsx 259: a character was added
CharAdded(input) == Len(input) > Len(userInput)

\* faulty variant of MissingCharThrows: the call is guarded, as in
\* expectedChar?.toLowerCase(), and the handler goes on
MissingCharIgnored(hasExpected) == FALSE

\* App.tsx 270: expectedChar.toLowerCase() throws a TypeError when
\* expectedChar is undefined
MissingCharThrows(hasExpected) == ~hasExpected

\* App.tsx 253-283
HandleInputChange(input) ==
    /\ IF ~AcceptsInput
       THEN /\ thrown' = FALSE
            /\ UNCHANGED <<userInput, currentSentenceIndex, totalCharsTyped, correctChars,
                           errorsRef>>
       ELSE LET currentTarget == sentences[currentSentenceIndex + 1]
                added == CharAdded(input)
                charIndex == Len(input) - 1
                typedChar == input[charIndex + 1]
                hasExpected == charIndex < Len(currentTarget)
                expectedChar == currentTarget[charIndex + 1]
                matches == hasExpected /\ typedChar = expectedChar
                \* expectedChar is undefined: expectedChar.toLowerCase() throws
                \* a TypeError and the rest of the handler does not run
                throws == added /\ MissingCharThrows(hasExpected)
                key == toLowerCase(expectedChar)
            IN  /\ totalCharsTyped' = IF added THEN totalCharsTyped + 1 ELSE totalCharsTyped
                /\ correctChars' = IF added /\ matches THEN correctChars + 1 ELSE correctChars
                /\ errorsRef' = IF added /\ hasExpected /\ ~matches
                                THEN [errorsRef EXCEPT ![key] = @ + 1]
                                ELSE errorsRef
                /\ thrown' = throws
                /\ IF throws
                   THEN UNCHANGED <<userInput, currentSentenceIndex>>
                   ELSE IF input = currentTarget
                        THEN /\ currentSentenceIndex' = (currentSentenceIndex + 1) % Len(sentences)
                             /\ userInput' = <<>>
                        ELSE /\ currentSentenceIndex' = currentSentenceIndex
                             /\ userInput' = input
    /\ sent' = <<>>
    /\ UNCHANGED <<status, difficulty, sentences, startTime, endTime, timeRemaining,
                   historyRef, peakWpmRef, analysisData, mpVars, svcVars, fetchPending,
                   pendingInit, now>>
    /\ Render

\* faulty variant of AdoptsInit: START is taken for the start of a session
AdoptsInitOrStart(msg) == msg.type \in {"INIT", "START"} /\ mpMode = "CLIENT"

\* faulty variant of AdoptsInit: the role check of line 103 is missing
AdoptsInitInAnyMode(msg) == msg.type = "INIT"

\* App.tsx 101-103: the message starts a session
AdoptsInit(msg) == msg.type = "INIT" /\ mpMode = "CLIENT"

\* faulty variant of AppliesUpdate: the FINISH case falls into the merge
AppliesAnyReport(msg) == msg.type \in {"UPDATE", "FINISH"}

\* App.tsx 111: the message is merged into opponentStats
AppliesUpdate(msg) == msg.type = "UPDATE"

\* faulty variant of MergeUpdate: a report with less progress than the
\* snapshot is taken for an old one and dropped
MergeIfAhead(prev, msg) ==
    IF msg.progress[1] * prev.progress[2] >= prev.progress[1] * msg.progress[2]
    THEN [wpm |-> msg.wpm, progress |-> msg.progress, carModel |-> msg.carModel]
    ELSE prev

\* App.tsx 112-117: the fields of the UPDATE replace those of the snapshot
\* (name, the only other field, is never written and is left out)
MergeUpdate(prev, msg) ==
    [wpm |-> msg.wpm, progress |-> msg.progress, carModel |-> msg.carModel]

\* App.tsx 99-122: the onData callback, called by the 'data' handler of any
\* connection handleConnection was given (multiplayerService.ts 53-57)
OnData(msg) ==
    /\ \E c \in ConnIds : conns[c] = "open"
    /\ thrown' = FALSE
    /\ IF AdoptsInit(msg)
       THEN /\ sentences' = msg.sentences
            /\ difficulty' = msg.difficulty
            /\ waitingForHostStart' = FALSE
            /\ startLocalGame
            /\ opponentStats' = [opponentStats EXCEPT !.carModel = msg.carModel]
            /\ UNCHANGED <<mpMode, isConnected>>
            /\ sent' = <<>>
            /\ UNCHANGED <<svcVars, fetchPending, pendingInit>>
            /\ Effects(TRUE, tickTimer, syncTimer)
       ELSE /\ opponentStats' = IF AppliesUpdate(msg)
                                THEN MergeUpdate(opponentStats, msg)
                                ELSE opponentStats
            /\ sent' = <<>>
            /\ UNCHANGED <<sessionVars, analysisVars, mpMode, isConnected,
                           waitingForHostStart, svcVars, fetchPending, pendingInit,
                           now>>
            /\ Render

\* faulty variant of cleanup: the references are dropped, but the connection
\* is not closed and the identity is not destroyed
cleanupWithoutClose ==
    /\ peer' = Null
    /\ peerIsHost' = FALSE
    /\ conn' = 0
    /\ conns' = conns

\* multiplayerService.ts 74-79: the connection is closed if there is one, the
\* identity is destroyed if there is one (its connections go with it), and
\* both references are dropped
cleanup ==
    /\ peer' = Null
    /\ peerIsHost' = FALSE
    /\ conn' = 0
    /\ conns' = [c \in ConnIds |-> "none"]

\* App.tsx 448-453
OnMenu ==
    /\ status = "FINISHED" /\ analysisData # <<>>
    /\ status' = "IDLE"
    /\ mpMode' = "SINGLE"
    /\ cleanup
    /\ isConnected' = FALSE
    /\ pendingInit' = "none"
    /\ sent' = <<>>
    /\ thrown' = FALSE
    /\ UNCHANGED <<difficulty, sentences, currentSentenceIndex, userInput, startTime,
                   endTime, totalCharsTyped, correctChars, timeRemaining, analysisVars,
                   opponentStats, waitingForHostStart, fetchPending, now>>
    /\ Render

\* faulty variant of RestartsToLobby: the button starts a session in every mode
RestartsSession == FALSE

\* App.tsx 455: the restart button of a multiplayer page goes to the lobby
RestartsToLobby == mpMode # "SINGLE"

\* App.tsx 454-461
OnRestart ==
    /\ status = "FINISHED" /\ analysisData # <<>>
    /\ IF RestartsToLobby
       THEN /\ status' = "IDLE"
            /\ UNCHANGED <<difficulty, fetchPending>>
       ELSE /\ difficulty' = difficulty
            /\ status' = "LOADING"
            /\ fetchPending' = <<[difficulty |-> difficulty, mpMode |-> mpMode]>>
    /\ sent' = <<>>
    /\ thrown' = FALSE
    /\ UNCHANGED <<sentences, currentSentenceIndex, userInput, startTime, endTime,
                   totalCharsTyped, correctChars, timeRemaining, analysisVars, mpVars,
                   svcVars, pendingInit, now>>
    /\ Render

\* App.tsx 351: JOIN SERVER
SelectClient ==
    /\ status = "IDLE" /\ mpMode = "SINGLE"
    /\ mpMode' = "CLIENT"
    /\ sent' = <<>>
    /\ thrown' = FALSE
    /\ UNCHANGED <<sessionVars, analysisVars, isConnected, opponentStats,
                   waitingForHostStart, svcVars, fetchPending, pendingInit, now>>
    /\ Render

\* App.tsx 379 and 403: Cancel in the host lobby or the join panel
CancelLobby ==
    /\ status = "IDLE" /\ mpMode \in {"HOST", "CLIENT"} /\ ~isConnected
    /\ mpMode' = "SINGLE"
    /\ sent' = <<>>
    /\ thrown' = FALSE
    /\ UNCHANGED <<sessionVars, analysisVars, isConnected, opponentStats,
                   waitingForHostStart, svcVars, fetchPending, pendingInit, now>>
    /\ Render

\* App.tsx 159-162 and 345, multiplayerService.ts 16-37: CREATE SERVER, up to
\* the await.  One initialize call is pending at a time.
InitMultiplayer ==
    /\ status = "IDLE" /\ mpMode = "SINGLE"
    /\ pendingInit = "none"
    /\ mpMode' = "HOST"
    /\ peer' = "new"
    /\ peerIsHost' = TRUE
    /\ pendingInit' = "host"
    /\ sent' = <<>>
    /\ thrown' = FALSE
    /\ UNCHANGED <<sessionVars, analysisVars, isConnected, opponentStats,
                   waitingForHostStart, conn, conns, fetchPending, now>>
    /\ Render

\* App.tsx 171-174 and 397: CONNECT with a host id typed in, up to the then
JoinGame ==
    /\ status = "IDLE" /\ mpMode = "CLIENT" /\ ~isConnected
    /\ pendingInit = "none"
    /\ mpMode' = "CLIENT"
    /\ peer' = "new"
    /\ peerIsHost' = FALSE
    /\ pendingInit' = "join"
    /\ sent' = <<>>
    /\ thrown' = FALSE
    /\ UNCHANGED <<sessionVars, analysisVars, isConnected, opponentStats,
                   waitingForHostStart, conn, conns, fetchPending, now>>
    /\ Render

\* multiplayerService.ts 45-58: the connection becomes this.conn
handleConnection(c) ==
    /\ conn' = c
    /\ conns' = [conns EXCEPT ![c] = "connecting"]

\* multiplayerService.ts 21-24: the peer's 'open' event resolves the promise;
\* App.tsx 163 (setMyPeerId, not modelled) or 175 and multiplayerService.ts 39-43
PeerOpen ==
    /\ peer = "new"
    /\ peer' = "open"
    /\ pendingInit' = "none"
    /\ IF pendingInit = "join"
       THEN \E c \in ConnIds :
              /\ conns[c] = "none"
              /\ \A b \in ConnIds : b < c => conns[b] # "none"
              /\ handleConnection(c)
       ELSE UNCHANGED <<conn, conns>>
    /\ sent' = <<>>
    /\ thrown' = FALSE
    /\ UNCHANGED <<sessionVars, analysisVars, mpVars, peerIsHost, fetchPending, now>>
    /\ Render

\* multiplayerService.ts 26-29: the peer's 'error' event before 'open' rejects
\* the promise; App.tsx 164-168 catches it on the host path only
PeerError ==
    /\ peer = "new"
    /\ peer' = "failed"
    /\ pendingInit' = "none"
    /\ mpMode' = IF pendingInit = "host" THEN "SINGLE" ELSE mpMode
    /\ sent' = <<>>
    /\ thrown' = FALSE
    /\ UNCHANGED <<sessionVars, analysisVars, isConnected, opponentStats,
                   waitingForHostStart, peerIsHost, conn, conns, fetchPending, now>>
    /\ Render

\* multiplayerService.ts 31-35: a remote peer connects to the host's identity
PeerConnection ==
    /\ peer = "open" /\ peerIsHost
    /\ \E c \in ConnIds :
         /\ conns[c] = "none"
         /\ \A b \in ConnIds : b < c => conns[b] # "none"
         /\ handleConnection(c)
    /\ sent' = <<>>
    /\ thrown' = FALSE
    /\ UNCHANGED <<sessionVars, analysisVars, mpVars, peer, peerIsHost, fetchPending,
                   pendingInit, now>>
    /\ Render

\* multiplayerService.ts 48-51 and App.tsx 92-97: a connection's 'open' event
ConnectionOpen(c) ==
    /\ conns[c] = "connecting"
    /\ conns' = [conns EXCEPT ![c] = "open"]
    /\ isConnected' = TRUE
    /\ waitingForHostStart' = IF mpMode = "CLIENT" THEN TRUE ELSE waitingForHostStart
    /\ sent' = <<>>
    /\ thrown' = FALSE
    /\ UNCHANGED <<sessionVars, analysisVars, mpMode, opponentStats, peer, peerIsHost,
                   conn, fetchPending, pendingInit, now>>
    /\ Render

\* the remote peer leaves or the link drops: the connection's open flag goes
\* false; the service has no 'close' handler
ConnectionClose(c) ==
    /\ conns[c] \in {"connecting", "open"}
    /\ conns' = [conns EXCEPT ![c] = "closed"]
    /\ sent' = <<>>
    /\ thrown' = FALSE
    /\ UNCHANGED <<sessionVars, analysisVars, mpVars, peer, peerIsHost, conn,
                   fetchPending, pendingInit, now>>
    /\ Render

\* ------------------------------------------------------------ time
Armed(t) == t # Cleared

\* the delays after which the page runs again: half an interval period (the
\* callbacks run on time) or a whole race (a throttled or suspended page,
\* whose callbacks run late)
Delays == {TickMs \div 2, GAME_DURATION * 1000}

\* Time passes.  A due tick runs before more time passes, and the on-time
\* delay is taken only while the history is short (maxHist).
ElapseWithin(d, maxHist) ==
    /\ status = "PLAYING"
    /\ tickTimer > 0
    /\ d < GAME_DURATION * 1000 => d <= tickTimer /\ Len(historyRef) < maxHist
    /\ now' = now + d
    /\ tickTimer' = Max(0, tickTimer - d)
    /\ syncTimer' = IF Armed(syncTimer) THEN Max(0, syncTimer - d) ELSE syncTimer
    /\ sent' = <<>>
    /\ thrown' = FALSE
    /\ UNCHANGED <<sessionVars, analysisVars, mpVars, statsRef, svcVars, fetchPending,
                   pendingInit>>

Elapse(d) == ElapseWithin(d, MaxHist)

\* Time passes once after the end of a session, when no interval is armed.
ElapseIdle(d) ==
    /\ status = "FINISHED"
    /\ now = endTime
    /\ now' = now + d
    /\ sent' = <<>>
    /\ thrown' = FALSE
    /\ UNCHANGED <<sessionVars, analysisVars, mpVars, statsRef, svcVars, fetchPending,
                   pendingInit, tickTimer, syncTimer>>

\* ------------------------------------------------------------ specification
\* an input event, with the number of scored keystrokes of a session capped
KeyStroke(input, cap) ==
    /\ Len(input) > Len(userInput) => totalCharsTyped < cap
    /\ HandleInputChange(input)

\* the whole system, with small input sets
Next ==
    \/ \E d \in PickedDifficulty : StartGameWithDifficulty(d)
    \/ \E data \in RaceCorpus : ContentReady(data)
    \/ Tick
    \/ SyncFire
    \/ \E input \in RaceInputs : KeyStroke(input, MaxRaceTyped)
    \/ \E msg \in RemoteMessages : OnData(msg)
    \/ OnMenu
    \/ OnRestart
    \/ SelectClient
    \/ CancelLobby
    \/ InitMultiplayer
    \/ JoinGame
    \/ PeerOpen
    \/ PeerError
    \/ PeerConnection
    \/ \E c \in ConnIds : ConnectionOpen(c)
    \/ \E c \in ConnIds : ConnectionClose(c)
    \/ \E d \in Delays : Elapse(d)

Spec == Init /\ [][Next]_vars

\* the single-player game, with every input up to MaxInputLen and every
\* answer of the content provider
TypingNext ==
    \/ \E d \in PickedDifficulty : StartGameWithDifficulty(d)
    \/ \E data \in Corpus : ContentReady(data)
    \/ Tick
    \/ \E input \in Inputs : KeyStroke(input, MaxTyped)
    \/ OnMenu
    \/ OnRestart
    \/ \E d \in Delays : Elapse(d)

TypingSpec == Init /\ [][TypingNext]_vars

\* the typist of the paced session adds one character at a time
PaceKey(input) ==
    /\ Len(input) = Len(userInput) + 1
    /\ KeyStroke(input, MaxPaceTyped)

\* the paced single-player session: one six-character sentence typed without
\* a mistake, with callbacks that run on time for the first MaxPaceHist samples
PaceNext ==
    \/ \E d \in PickedDifficulty : StartGameWithDifficulty(d)
    \/ \E data \in PaceCorpus : ContentReady(data)
    \/ Tick
    \/ \E input \in PaceInputs : PaceKey(input)
    \/ \E d \in Delays : ElapseWithin(d, MaxPaceHist)
    \/ ElapseIdle(TickMs)
    \/ OnRestart

PaceSpec == Init /\ [][PaceNext]_vars

\* a player that joins the race of a remote host
PeerNext ==
    \/ Tick
    \/ SyncFire
    \/ \E input \in RaceInputs : KeyStroke(input, MaxRaceTyped)
    \/ \E msg \in PeerMessages : OnData(msg)
    \/ OnMenu
    \/ OnRestart
    \/ SelectClient
    \/ CancelLobby
    \/ JoinGame
    \/ PeerOpen
    \/ PeerError
    \/ \E c \in ConnIds : ConnectionOpen(c)
    \/ \E c \in ConnIds : ConnectionClose(c)
    \/ \E d \in Delays : Elapse(d)

PeerSpec == Init /\ [][PeerNext]_vars

\* a page that more than one remote peer can reach.  Every identity is made
\* while the channel has no connection (no lobby is left without a reset, and
\* CONNECT is pressed once), so every connection belongs to the identity that
\* cleanup destroys.
LobbyInit == InitOf(MaxLobbyConns)

LobbyJoin == peer = Null /\ JoinGame

LobbyNext ==
    \/ \E d \in PickedDifficulty : StartGameWithDifficulty(d)
    \/ \E data \in HostCorpus : ContentReady(data)
    \/ Tick
    \/ SyncFire
    \/ \E msg \in RemoteMessages : OnData(msg)
    \/ OnMenu
    \/ OnRestart
    \/ SelectClient
    \/ InitMultiplayer
    \/ LobbyJoin
    \/ PeerOpen
    \/ PeerError
    \/ PeerConnection
    \/ \E c \in ConnIds : ConnectionOpen(c)
    \/ \E c \in ConnIds : ConnectionClose(c)
    \/ \E d \in Delays : Elapse(d)
    \/ ElapseIdle(TickMs)

LobbySpec == LobbyInit /\ [][LobbyNext]_vars

\* multiplayerService.ts 74-79, called by any holder of the exported service;
\* the promise of an identity that is destroyed before it opens never settles
CleanupCall ==
    /\ cleanup
    /\ pendingInit' = "none"
    /\ sent' = <<>>
    /\ thrown' = FALSE
    /\ UNCHANGED <<sessionVars, analysisVars, mpVars, fetchPending, now>>
    /\ Render

\* multiplayerService.ts 60-64, called by any holder of the exported service
SendCall(msg) ==
    /\ sent' = IF ConnOpen THEN <<msg>> ELSE <<>>
    /\ thrown' = FALSE
    /\ UNCHANGED <<sessionVars, analysisVars, mpVars, statsRef, svcVars, fetchPending,
                   pendingInit, now, tickTimer, syncTimer>>

\* the page and its channel, with cleanup and send also called at any moment
ServiceNext ==
    \/ LobbyNext
    \/ CleanupCall
    \/ \E msg \in RemoteMessages : SendCall(msg)

ServiceSpec == LobbyInit /\ [][ServiceNext]_vars

\* the timers of a page that stays scheduled fire, and time passes
TimePasses == \E d \in Delays : Elapse(d)

FairSpec == Spec /\ WF_vars(Tick) /\ WF_vars(TimePasses)

\* ------------------------------------------------------------ steps
\* the step is the resolution of a content fetch
ContentStep == \E data \in Corpus \cup RaceCorpus : ContentReady(data)

\* the step is the receipt of an INIT that starts a session
InitStep == \E msg \in RemoteMessages : AdoptsInit(msg) /\ OnData(msg)

\* ------------------------------------------------------------ properties
\* C1 (as stated): in every mode status becomes PLAYING only from LOADING;
\* PLAYING is never entered from IDLE or FINISHED, nor re-entered from PLAYING.
C1_PlayingOnlyFromLoading ==
    [][(status' = "PLAYING" /\ (status # "PLAYING" \/ ContentStep \/ InitStep))
         => status = "LOADING"]_vars

\* C1 (amended): status moves IDLE -> LOADING -> PLAYING -> FINISHED ->
\* IDLE or LOADING, and LOADING is entered in SINGLE and HOST mode only; the
\* one other move is that of a CLIENT, which enters PLAYING from IDLE or
\* FINISHED by receiving INIT; a session in PLAYING starts again only by a
\* CLIENT receiving INIT.
C1_PlayingEntry ==
    [][/\ status' # status =>
            \/ status = "IDLE" /\ status' = "LOADING" /\ mpMode \in {"SINGLE", "HOST"}
            \/ status = "LOADING" /\ status' = "PLAYING" /\ ContentStep
            \/ status = "PLAYING" /\ status' = "FINISHED"
            \/ status = "FINISHED" /\ status' \in {"IDLE", "LOADING"}
            \/ /\ status \in {"IDLE", "FINISHED"} /\ status' = "PLAYING"
               /\ mpMode = "CLIENT" /\ InitStep
       /\ status = "PLAYING" => ~ContentStep
       /\ InitStep => mpMode = "CLIENT"
       /\ mpMode = "CLIENT" => status' # "LOADING"]_vars

\* C1 witness: a CLIENT whose session the host's INIT has just started
C1_ClientStarted ==
    /\ mpMode = "CLIENT" /\ status = "PLAYING"
    /\ sentences \in HostCorpus /\ now = startTime /\ tickTimer = TickMs

\* C2: status leaves PLAYING only for FINISHED, in a tick at least
\* GAME_DURATION seconds after startTime; an input that completes the last
\* sentence puts the index back to 0 and leaves status PLAYING; no input and
\* no UPDATE or FINISH message moves status out of PLAYING.
C2_DurationAloneEnds ==
    [][/\ (status = "PLAYING" /\ status' # "PLAYING") =>
            /\ status' = "FINISHED"
            /\ Tick
            /\ now - startTime >= GAME_DURATION * 1000
       /\ \A input \in RaceInputs :
            (status = "PLAYING" /\ HandleInputChange(input)) =>
                /\ status' = "PLAYING"
                /\ (/\ Len(sentences) > 0
                    /\ currentSentenceIndex = Len(sentences) - 1
                    /\ input = sentences[Len(sentences)])
                   => currentSentenceIndex' = 0 /\ userInput' = <<>>
       /\ \A msg \in RemoteMessages :
            (status = "PLAYING" /\ msg.type \in {"UPDATE", "FINISH"} /\ OnData(msg))
                => status' = "PLAYING"]_vars

\* C2 witness: both sentences of the list were completed, the index went
\* back to 0 and the race went on until the clock ended it
C2_FinishedAfterWrap ==
    /\ status = "FINISHED" /\ Len(sentences) = 2
    /\ correctChars = 2 /\ currentSentenceIndex = 0
    /\ endTime - startTime >= GAME_DURATION * 1000

\* C3 (as stated): under weak fairness of the tick and of the passing of
\* time, PLAYING leads to FINISHED.
C3_PlayingLeadsToFinished == (status = "PLAYING") ~> (status = "FINISHED")

\* C3 (amended): under the same fairness PLAYING leads to FINISHED provided
\* INIT messages stop restarting the session, and the first tick at which no
\* time remains ends the session.
C3_FinishedUnlessRestarted ==
    /\ <>[][~InitStep]_vars => ((status = "PLAYING") ~> (status = "FINISHED"))
    /\ [][(Tick /\ now - startTime >= GAME_DURATION * 1000)
            => (status' = "FINISHED" /\ timeRemaining' = 0)]_vars

\* C3 witness: a CLIENT's session, ended by its own clock
C3_ClientFinished ==
    /\ status = "FINISHED" /\ mpMode = "CLIENT"
    /\ timeRemaining = 0 /\ analysisData # <<>>

\* C4: while PLAYING in HOST or CLIENT mode the time at which the next
\* UPDATE is due does not depend on the keystrokes: an input event leaves the
\* broadcast timer as it is.
C4_InputKeepsCadence ==
    [][\A input \in RaceInputs :
         (status = "PLAYING" /\ mpMode # "SINGLE" /\ HandleInputChange(input))
             => syncTimer' = syncTimer]_vars

\* C4 witness: a keystroke has set the broadcast timer back to a full period
\* while the tick timer is half way through its own
C4_BroadcastPushedBack ==
    /\ status = "PLAYING" /\ mpMode # "SINGLE" /\ ConnOpen
    /\ totalCharsTyped > 0 /\ syncTimer = SyncMs /\ tickTimer = TickMs \div 2

C6_InitRoundTrip ==
    [][\A msg \in RemoteMessages :
         (msg.type = "INIT" /\ mpMode = "CLIENT" /\ OnData(msg)) =>
             /\ sentences' = msg.sentences
             /\ difficulty' = msg.difficulty
             /\ waitingForHostStart' = FALSE
             /\ status' = "PLAYING"
             /\ totalCharsTyped' = 0 /\ correctChars' = 0
             /\ userInput' = <<>> /\ currentSentenceIndex' = 0]_vars

\* C6 witness: a waiting CLIENT has adopted the host's list and difficulty
\* in place of its own
C6_ClientAdopted ==
    /\ mpMode = "CLIENT" /\ status = "PLAYING" /\ ~waitingForHostStart
    /\ sentences \in HostCorpus /\ difficulty \in HostDifficulty
    /\ totalCharsTyped = 0 /\ historyRef = <<>>

\* C7 (as stated): a HOST whose status goes from LOADING to PLAYING has
\* transmitted, in that step, an INIT with the list it stored and the
\* difficulty it selected.
C7_HostAlwaysTransmitsInit ==
    [][(mpMode = "HOST" /\ status = "LOADING" /\ status' = "PLAYING")
         => sent' = <<Msg("INIT", sentences', difficulty', 0, <<0, 1>>)>>]_vars

\* C7 (amended): a HOST whose status goes from LOADING to PLAYING has
\* transmitted such an INIT exactly if its connection is open, and nothing
\* otherwise; every INIT that is transmitted carries the list and the
\* difficulty of the session that starts in the same step.
C7_HostTransmitsInitIfOpen ==
    [][/\ (mpMode = "HOST" /\ status = "LOADING" /\ status' = "PLAYING")
            => sent' = IF ConnOpen
                       THEN <<Msg("INIT", sentences', difficulty', 0, <<0, 1>>)>>
                       ELSE <<>>
       /\ \A i \in 1..Len(sent') :
            sent'[i].type = "INIT" =>
                /\ status = "LOADING" /\ status' = "PLAYING"
                /\ sent'[i].sentences = sentences'
                /\ sent'[i].difficulty = difficulty']_vars

\* C7 witness: a HOST has just started a session and transmitted its INIT
C7_HostSentInit ==
    /\ mpMode = "HOST" /\ status = "PLAYING"
    /\ sent = <<Msg("INIT", sentences, difficulty, 0, <<0, 1>>)>>
    /\ sentences \in RaceCorpus

\* C8: while mode is HOST and connected is false, status is IDLE, no
\* difficulty can be selected and status stays IDLE.
C8_HostStartsOnlyConnected ==
    [][(mpMode = "HOST" /\ ~isConnected) =>
         /\ status = "IDLE"
         /\ ~CanSelectDifficulty
         /\ ~(\E d \in Difficulty : StartGameWithDifficulty(d))
         /\ status' = "IDLE"]_vars

\* C8 witness: a HOST in its lobby, identity known, nobody connected
C8_HostInLobby ==
    /\ mpMode = "HOST" /\ ~isConnected /\ status = "IDLE" /\ peer = "open"

\* C9: an input event that arrives when status is not PLAYING, or when no
\* sentences are loaded, leaves the buffer, the sentence index, both counters
\* and the error map unchanged.
C9_InputIgnoredOutsidePlay ==
    [][\A input \in Inputs :
         ((status # "PLAYING" \/ Len(sentences) = 0) /\ HandleInputChange(input))
             => UNCHANGED <<userInput, currentSentenceIndex, correctChars,
                            totalCharsTyped, errorsRef>>]_vars

\* C9 witness: a finished session with text left in the buffer, where the
\* handler ignores input
C9_FinishedWithBuffer ==
    /\ status = "FINISHED" /\ Len(userInput) = 1 /\ totalCharsTyped = 2
    /\ Len(sentences) > 0

\* the sum of the counts of an error map
ErrorTotal(errors) == errors["a"] + errors["b"] + errors["A"] + errors["B"]

\* C10: during PLAYING every input longer than the buffer scores its last
\* position, wherever that is: totalCharsTyped goes up by 1, correctChars by
\* 1 exactly if the last character is the target's at that index, otherwise
\* one error-map entry goes up by 1; the handler completes and the buffer
\* becomes the input (or empty, when the input completes the sentence).
C10_EveryLongerInputScored ==
    [][\A input \in Inputs :
         (/\ status = "PLAYING" /\ Len(sentences) > 0
          /\ Len(input) > Len(userInput)
          /\ HandleInputChange(input)) =>
             LET target == sentences[currentSentenceIndex + 1]
                 at == Len(input)
                 hit == at <= Len(target) /\ input[at] = target[at]
             IN  /\ totalCharsTyped' = totalCharsTyped + 1
                 /\ correctChars' = correctChars + (IF hit THEN 1 ELSE 0)
                 /\ ErrorTotal(errorsRef') = ErrorTotal(errorsRef) + (IF hit THEN 0 ELSE 1)
                 /\ \A k \in Keys : errorsRef'[k] >= errorsRef[k]
                 /\ ~thrown'
                 /\ userInput' = IF input = target THEN <<>> ELSE input]_vars

\* C10 witness: an input that ends past the end of the target was counted
\* and the handler threw before it stored the input
C10_HandlerThrew ==
    /\ status = "PLAYING" /\ thrown
    /\ totalCharsTyped > correctChars + ErrorTotal(errorsRef)

\* C11: correctChars <= totalCharsTyped in every reachable state.
C11_CorrectAtMostTotal ==
    /\ correctChars <= totalCharsTyped
    /\ statsRef.correctChars <= statsRef.totalCharsTyped

\* C11 witness: a session has scored two correct keystrokes and a wrong one
C11_ScoredBothKinds ==
    /\ status = "PLAYING" /\ correctChars = 2 /\ totalCharsTyped = 3
    /\ ErrorTotal(errorsRef) = 1

\* C12: in a step that starts no session neither counter decreases, and an
\* input that is not longer than the buffer changes neither counter nor the
\* error map.
C12_CountersMonotonic ==
    [][/\ ~(ContentStep \/ InitStep) =>
            /\ correctChars' >= correctChars
            /\ totalCharsTyped' >= totalCharsTyped
       /\ \A input \in Inputs :
            (Len(input) <= Len(userInput) /\ HandleInputChange(input))
                => UNCHANGED <<correctChars, totalCharsTyped, errorsRef>>]_vars

\* C12 witness: the first position was typed wrong three times, with the
\* buffer emptied in between, and the counters kept every keystroke
C12_RetypedThrice ==
    /\ status = "PLAYING" /\ currentSentenceIndex = 0
    /\ errorsRef["a"] = 3 /\ totalCharsTyped = 3 /\ correctChars = 0
    /\ Len(userInput) = 1

\* C13: a mismatch adds 1 to the entry of the lowercased expected character
\* and to no other; the entries of upper-case keys stay 0; entries change
\* only in a mismatch; no entry decreases in a step that starts no session.
C13_ErrorKeyIsLowercasedTarget ==
    [][/\ \A input \in Inputs :
            (status = "PLAYING" /\ Len(sentences) > 0 /\ HandleInputChange(input)) =>
                LET target == sentences[currentSentenceIndex + 1]
                    at == Len(input)
                    miss == /\ Len(input) > Len(userInput)
                            /\ at <= Len(target)
                            /\ input[at] # target[at]
                    lower == IF target[at] = "A" THEN "a"
                             ELSE IF target[at] = "B" THEN "b" ELSE target[at]
                IN  IF miss
                    THEN errorsRef' = [errorsRef EXCEPT ![lower] = @ + 1]
                    ELSE errorsRef' = errorsRef
       /\ errorsRef'["A"] = 0 /\ errorsRef'["B"] = 0
       /\ ~(ContentStep \/ InitStep) => \A k \in Keys : errorsRef'[k] >= errorsRef[k]
       /\ errorsRef' # errorsRef =>
            \/ ContentStep \/ InitStep
            \/ \E input \in Inputs : HandleInputChange(input)]_vars

\* C13 witness: against the target "B" a wrong character was typed, and the
\* error is filed under "b"
C13_UpperTargetFiledLower ==
    /\ status = "PLAYING" /\ Len(sentences) = 2 /\ currentSentenceIndex = 1
    /\ errorsRef["b"] = 1 /\ errorsRef["B"] = 0 /\ userInput = <<"a">>

\* C14: an input equal to the current target moves the index to
\* (index + 1) mod len(sentences) and empties the buffer; after any other
\* input, of whatever length, the index is unchanged and the buffer holds the
\* input.
C14_ExactMatchCompletes ==
    [][\A input \in Inputs :
         (status = "PLAYING" /\ Len(sentences) > 0 /\ HandleInputChange(input)) =>
             IF input = sentences[currentSentenceIndex + 1]
             THEN /\ currentSentenceIndex' = (currentSentenceIndex + 1) % Len(sentences)
                  /\ userInput' = <<>>
             ELSE /\ currentSentenceIndex' = currentSentenceIndex
                  /\ userInput' = input]_vars

\* C14 witness: the buffer was as long as the target, with a wrong
\* character, and a longer input was not stored because the handler threw
C14_LongerInputNotStored ==
    /\ status = "PLAYING" /\ thrown /\ Len(sentences) = 2
    /\ Len(userInput) = Len(sentences[currentSentenceIndex + 1])

\* C15: whenever the sentence list is non-empty the sentence index is below
\* its length, also after a shorter list has replaced a longer one (a
\* single-player restart, a CLIENT adopting an INIT).
C15_IndexInsideList ==
    Len(sentences) > 0 => currentSentenceIndex \in 0..(Len(sentences) - 1)

\* C15 witness: a CLIENT plays the host's one-sentence list, which replaced
\* whatever list it had before
C15_ClientOnShorterList ==
    /\ mpMode = "CLIENT" /\ status = "PLAYING"
    /\ sentences \in HostCorpus /\ currentSentenceIndex = 0 /\ userInput # <<>>

\* C16: in every PLAYING state the input buffer is no longer than the current
\* target sentence.
C16_BufferInsideTarget ==
    (status = "PLAYING" /\ Len(sentences) > 0) =>
        Len(userInput) <= Len(sentences[currentSentenceIndex + 1])

\* C16 witness: the buffer is as long as a one-character target and differs
\* from it, so that one more character would overflow
C16_BufferFullAndWrong ==
    /\ status = "PLAYING" /\ Len(sentences) = 2 /\ currentSentenceIndex = 1
    /\ Len(userInput) = Len(sentences[2]) /\ ~thrown /\ totalCharsTyped = 2

CountMatches(n, ms) == (n - 1) * TickMs <= ms /\ ms <= (n + 1) * TickMs

\* what a tick appends: the elapsed time and the wpm of the current counters
SampleAppended ==
    LET elapsedMs == now - startTime
        last == historyRef'[Len(historyRef')]
    IN  /\ Len(historyRef') = Len(historyRef) + 1
        /\ SubSeq(historyRef', 1, Len(historyRef)) = historyRef
        /\ last.time = elapsedMs
        /\ last.wpm = IF elapsedMs > 0 THEN Round(correctChars * 12000, elapsedMs) ELSE 0

\* the history changes only by a tick's sample or by the reset of a session start
HistoryKept ==
    \/ historyRef' = historyRef
    \/ historyRef' = <<>> /\ status' = "PLAYING" /\ now' = startTime'

C21_TickReadsCurrentCounters ==
    [][Tick =>
         LET elapsedMs == now - startTime
             last == historyRef'[Len(historyRef')]
         IN  /\ statsRef.correctChars = correctChars
             /\ statsRef.totalCharsTyped = totalCharsTyped
             /\ last.wpm = IF elapsedMs > 0 THEN Round(correctChars * 12000, elapsedMs) ELSE 0
             /\ status' = "FINISHED" =>
                    /\ analysisData'[1].avgWpm =
                           IF elapsedMs > 0 THEN Round(correctChars * 12000, elapsedMs) ELSE 0
                    /\ analysisData'[1].accuracy =
                           IF totalCharsTyped > 0
                           THEN Round(correctChars * 100, totalCharsTyped) ELSE 100]_vars

\* C21 witness: a correct keystroke came before the first tick and a wrong
\* one between that tick and the last
C21_KeystrokesBetweenTicks ==
    /\ status = "FINISHED" /\ Len(historyRef) = 2 /\ historyRef[1].wpm = 24
    /\ correctChars = 1 /\ totalCharsTyped = 2 /\ analysisData[1].accuracy = 50

\* a session has just started: the state startLocalGame leaves
FreshSession ==
    /\ startTime' # NoTime /\ startTime' = now'
    /\ endTime' = NoTime
    /\ timeRemaining' = GAME_DURATION
    /\ correctChars' = 0 /\ totalCharsTyped' = 0
    /\ userInput' = <<>>
    /\ currentSentenceIndex' = 0
    /\ historyRef' = <<>> /\ errorsRef' = NoErrors /\ peakWpmRef' = 0

\* C22: every entry into PLAYING, in SINGLE, HOST and CLIENT mode alike,
\* starts a fresh session: start time recorded, endTime cleared, timeRemaining
\* 120, counters 0, buffer empty, index 0, history, ErrorMap and peak cleared.
C22_PlayingStartsFresh ==
    [][(status' = "PLAYING" /\ (status # "PLAYING" \/ InitStep \/ ContentStep)) =>
           FreshSession]_vars

\* C22 witness: a HOST that has heard from its opponent is at the start of a
\* session
C22_HostAtStart ==
    /\ status = "PLAYING" /\ mpMode = "HOST" /\ now = startTime
    /\ totalCharsTyped = 0 /\ historyRef = <<>> /\ opponentStats.wpm = 40

\* C23: when a multiplayer session enters PLAYING, a second race on the same
\* connection included, the opponent snapshot is reset to wpm 0 and progress
\* 0, so that no sample of the new session carries the opponentWpm of the
\* race before.
C23_OpponentResetAtStart ==
    [][(/\ status' = "PLAYING" /\ mpMode' # "SINGLE"
        /\ (status # "PLAYING" \/ InitStep \/ ContentStep)) =>
           /\ opponentStats'.wpm = 0
           /\ RatEq(opponentStats'.progress, <<0, 1>>)
           /\ statsRef'.opponentStats.wpm = 0]_vars

\* C23 witness: a CLIENT is at the very start of a session with the wpm of
\* an earlier UPDATE in its snapshot and in the object the tick reads
C23_ClientStartsWithOldSnapshot ==
    /\ status = "PLAYING" /\ mpMode = "CLIENT" /\ now = startTime
    /\ historyRef = <<>> /\ totalCharsTyped = 0
    /\ opponentStats.wpm = 40 /\ statsRef.opponentStats.wpm = 40

\* what the end of a session leaves: endTime, FINISHED and the AnalysisData of
\* the session just played
SessionEnded ==
    LET elapsedMs == now - startTime
        a == analysisData'[1]
    IN  /\ Tick
        /\ endTime' = now
        /\ analysisData' # <<>>
        /\ a.history = historyRef' /\ Len(historyRef') = Len(historyRef) + 1
        /\ a.errors = errorsRef
        /\ a.peakWpm = peakWpmRef'
        /\ a.totalTime = elapsedMs
        /\ a.difficulty = difficulty
        /\ a.avgWpm = (IF elapsedMs > 0 THEN Round(correctChars * 12000, elapsedMs) ELSE 0)
        /\ a.accuracy = calculateAccuracy

\* the step transmits exactly one message, a FINISH with the final wpm
TransmitsFinish ==
    /\ Len(sent') = 1
    /\ sent'[1].type = "FINISH"
    /\ sent'[1].wpm = analysisData'[1].avgWpm

\* C24 (as stated): the end of a session sets endTime, moves to FINISHED and
\* produces the AnalysisData of the session just played; in HOST or CLIENT
\* mode it also sends a FINISH whose wpm is AnalysisData.avgWpm, in SINGLE mode
\* it sends nothing.
C24_EndSendsFinish ==
    [][(status = "PLAYING" /\ status' = "FINISHED") =>
           /\ SessionEnded
           /\ IF mpMode # "SINGLE" THEN TransmitsFinish ELSE sent' = <<>>]_vars

\* C24 (amended): the same, the FINISH being transmitted in HOST or CLIENT
\* mode only if the connection is open; otherwise nothing is sent.
C24_EndSendsFinishIfOpen ==
    [][(status = "PLAYING" /\ status' = "FINISHED") =>
           /\ SessionEnded
           /\ IF mpMode # "SINGLE" /\ ConnOpen THEN TransmitsFinish ELSE sent' = <<>>]_vars

\* C24 witness: a CLIENT that typed has ended its session and transmitted
\* the FINISH
C24_ClientSentFinish ==
    /\ status = "FINISHED" /\ mpMode = "CLIENT" /\ analysisData # <<>>
    /\ analysisData[1].peakWpm > 0 /\ Len(analysisData[1].history) = 2
    /\ sent = <<FinishMessage(analysisData[1].avgWpm)>>

C27_LastReceivedWins ==
    [][\A msg \in PeerMessages :
         (msg.type = "UPDATE" /\ OnData(msg)) =>
             /\ opponentStats'.wpm = msg.wpm
             /\ opponentStats'.progress = msg.progress
             /\ statsRef'.opponentStats = opponentStats']_vars

\* C27 witness: the sample of the first tick saw the opponent at 40, and the
\* snapshot now holds the report that arrived later, 30 and 0.1
C27_LowerReportArrivedLast ==
    /\ status = "PLAYING" /\ mpMode = "CLIENT" /\ Len(historyRef) = 1
    /\ historyRef[1].opponentWpm = 40
    /\ opponentStats.wpm = 30 /\ opponentStats.progress = <<1, 10>>

\* the step is the receipt of an UPDATE, merged into the snapshot
UpdateStep ==
    \E msg \in PeerMessages \cup RemoteMessages :
        /\ msg.type = "UPDATE" /\ OnData(msg)
        /\ opponentStats'.wpm = msg.wpm /\ opponentStats'.progress = msg.progress
        /\ opponentStats'.carModel = msg.carModel

C29_FinishChangesNothing ==
    [][\A msg \in RemoteMessages :
         (msg.type = "FINISH" /\ OnData(msg)) =>
             UNCHANGED <<sessionVars, analysisVars, mpVars, statsRef, tickTimer,
                         syncTimer, now>>]_vars

\* C29 witness: a HOST in the middle of its race, after the first sample,
\* with the connection on which the client's FINISH arrives
C29_HostRacingOn ==
    /\ status = "PLAYING" /\ mpMode = "HOST" /\ ConnOpen
    /\ Len(historyRef) = 1 /\ totalCharsTyped = 1 /\ tickTimer = TickMs

\* C30: an inbound message whose type is not INIT, UPDATE or FINISH, such as
\* START, is dropped: session state and opponent snapshot are unchanged, no
\* fault is raised, and the connection goes on delivering messages.
C30_UnknownTypeDropped ==
    [][\A msg \in RemoteMessages :
         (msg.type \notin {"INIT", "UPDATE", "FINISH"} /\ OnData(msg)) =>
             /\ UNCHANGED <<sessionVars, analysisVars, mpVars, statsRef, svcVars,
                            tickTimer, syncTimer, now>>
             /\ thrown' = FALSE
             /\ \E c \in ConnIds : conns'[c] = "open"]_vars

\* C30 witness: a CLIENT that has heard from its host still waits in the
\* lobby, where a START starts nothing
C30_ClientStillWaiting ==
    /\ mpMode = "CLIENT" /\ status = "IDLE" /\ waitingForHostStart /\ ConnOpen
    /\ sentences = <<>> /\ opponentStats.wpm = 40

\* ------------------------------------------------------------ C31
\* the page has no connection, or one that is not open (not yet, or no more)
NoOpenConn == conn = 0 \/ conns[conn] # "open"

\* C31: a send made while there is no connection, or while the connection is
\* not yet open or is closed, transmits nothing, and nothing is kept to be
\* transmitted when a connection opens; the broadcast callback that made the
\* call changes nothing of the page's or the channel's state and raises no
\* error.
C31_SendWithoutOpenConnIsDropped ==
    [][ /\ (NoOpenConn => sent' = <<>>)
        /\ (\A c \in ConnIds : ConnectionOpen(c) => sent' = <<>>)
        /\ (SyncFire /\ NoOpenConn
              => /\ ~thrown'
                 /\ UNCHANGED <<sessionVars, analysisVars, mpVars, statsRef, svcVars>>)
      ]_vars

\* a host started its race while its latest connection was still opening
C31_HostStartedOnOpeningConn ==
    /\ mpMode = "HOST" /\ status = "PLAYING" /\ startTime = now
    /\ conn # 0 /\ conns[conn] = "connecting"
    /\ sent = <<>>

\* ------------------------------------------------------------ C32
\* C32: the onConnect callback fires at most once for one call of initialize,
\* here on the host path.  In LobbySpec a host identity is made only while the
\* channel has no connection and isConnected is false; isConnected becomes
\* true only in the callback and stays true until cleanup, so on a host it
\* tells whether the callback has fired since the call of initialize: the
\* callback never fires on a host while it is already true.
C32_OnConnectOncePerCall ==
    [][\A c \in ConnIds : ConnectionOpen(c) /\ mpMode = "HOST" => ~isConnected]_vars

\* two remote peers have an open connection to the identity of one host
C32_TwoPeersConnected ==
    /\ mpMode = "HOST" /\ peer = "open"
    /\ \E a, b \in ConnIds : a # b /\ conns[a] = "open" /\ conns[b] = "open"

\* ------------------------------------------------------------ C33
\* C33: whenever the making of the identity fails, on the host path and on
\* the join path alike, the page falls back to single-player mode and the
\* failure raises nothing in the state machine.
C33_InitFailureFallsBackToSingle ==
    [][PeerError => mpMode' = "SINGLE" /\ ~thrown']_vars

\* the identity of a joining player failed and the page is still in client mode
C33_ClientLeftWithFailedPeer ==
    mpMode = "CLIENT" /\ peer = "failed" /\ pendingInit = "none" /\ ~isConnected

\* ------------------------------------------------------------ C34
\* C34: the menu button of the analysis screen returns the page to IDLE in
\* single-player mode, tears the channel down (no connection, no identity,
\* not connected) and clears the state of the session: sentences, sentence
\* index, input buffer, both counters, start and end time, history, error
\* map, opponent snapshot and the waiting flag of a client.
C34_MenuClearsSession ==
    [][OnMenu =>
         /\ status' = "IDLE" /\ mpMode' = "SINGLE" /\ ~isConnected'
         /\ peer' = Null /\ conn' = 0
         /\ \A c \in ConnIds : conns'[c] # "open"
         /\ sentences' = <<>> /\ currentSentenceIndex' = 0 /\ userInput' = <<>>
         /\ totalCharsTyped' = 0 /\ correctChars' = 0
         /\ startTime' = NoTime /\ endTime' = NoTime
         /\ historyRef' = <<>> /\ errorsRef' = NoErrors
         /\ opponentStats' = NoOpponent
         /\ ~waitingForHostStart'
      ]_vars

\* the page is back at the menu with the channel down, and still holds the
\* sentences, the end time, the history and the opponent of the race it left
C34_MenuWithOldSession ==
    /\ status = "IDLE" /\ mpMode = "SINGLE" /\ ~isConnected
    /\ peer = Null /\ conn = 0
    /\ Len(sentences) > 0 /\ endTime # NoTime /\ historyRef # <<>>
    /\ opponentStats.wpm > 0

\* ------------------------------------------------------------ C35
\* C35: the restart button of a HOST or CLIENT page that is FINISHED takes the
\* page to the lobby: status becomes IDLE, no content is fetched, nothing is
\* sent, and the mode, the connected flag and the channel are unchanged.  The
\* page leaves that lobby only when the host picks a difficulty (LOADING, then
\* PLAYING when its content arrives) or, on a client, when an INIT arrives.
C35_RestartReturnsToLobby ==
    [][ /\ (OnRestart /\ mpMode # "SINGLE"
              => /\ status' = "IDLE"
                 /\ fetchPending' = <<>> /\ sent' = <<>>
                 /\ UNCHANGED <<mpMode, isConnected, svcVars>>)
        /\ (status = "IDLE" /\ mpMode = "HOST" /\ status' # "IDLE"
              => status' = "LOADING"
                 /\ \E d \in PickedDifficulty : StartGameWithDifficulty(d))
        /\ (status = "IDLE" /\ mpMode = "CLIENT" /\ status' # "IDLE"
              => status' = "PLAYING"
                 /\ \E msg \in RemoteMessages : msg.type = "INIT" /\ OnData(msg))
        /\ (mpMode = "HOST" /\ status # "PLAYING" /\ status' = "PLAYING"
              => status = "LOADING" /\ \E data \in HostCorpus : ContentReady(data))
      ]_vars

\* a host is back in the lobby after a race, its connection still open
C35_HostBackInLobby ==
    /\ mpMode = "HOST" /\ status = "IDLE" /\ analysisData # <<>>
    /\ isConnected /\ ConnOpen /\ peer = "open"
    /\ fetchPending = <<>>

\* ------------------------------------------------------------ C36
\* C36: cleanup leaves the channel with no connection and no identity and with
\* no connection alive, whatever the channel held before; called on a channel
\* that has neither (a second call in a row, or a call before any initialize)
\* it changes nothing of the channel; it raises no error; and while the
\* channel has no connection, no send transmits anything.
C36_CleanupIdempotent ==
    [][ /\ (CleanupCall
              => /\ peer' = Null /\ conn' = 0
                 /\ \A c \in ConnIds : conns'[c] \notin {"connecting", "open"}
                 /\ ~thrown'
                 /\ (peer = Null /\ conn = 0 => UNCHANGED svcVars))
        /\ (conn = 0 => sent' = <<>>)
      ]_vars

\* the channel is clean while the page still shows a host that is connected:
\* cleanup was called on a channel with an open connection
C36_CleanedWhileConnected ==
    /\ peer = Null /\ conn = 0 /\ \A c \in ConnIds : conns[c] = "none"
    /\ mpMode = "HOST" /\ isConnected /\ status = "PLAYING"

\* ------------------------------------------------------------ C37
\* C37: the list fetchSentences resolves with holds at least one non-empty
\* sentence, so that a session that is PLAYING always has one.
C37_PlayingHasASentence ==
    status = "PLAYING" => \E i \in 1..Len(sentences) : Len(sentences[i]) > 0

\* a session is PLAYING on the empty list the content provider answered with
C37_PlayingOnEmptyList ==
    status = "PLAYING" /\ sentences = <<>> /\ startTime # NoTime /\ Armed(tickTimer)

\* ------------------------------------------------------------ C38
\* C38: an INIT received by a page in HOST or SINGLE mode changes nothing of
\* the session, the analysis, the opponent or the timers; in those modes the
\* sentences change only when a fetch of the page itself resolves.
C38_InitIgnoredOutsideClient ==
    [][ /\ (\A msg \in RemoteMessages :
              msg.type = "INIT" /\ mpMode \in {"HOST", "SINGLE"} /\ OnData(msg)
                => UNCHANGED <<sessionVars, analysisVars, mpVars, statsRef,
                               tickTimer, syncTimer>>)
        /\ (mpMode \in {"HOST", "SINGLE"} /\ sentences' # sentences
              => fetchPending # <<>> /\ \E data \in HostCorpus : ContentReady(data))
      ]_vars

\* a host races on its own choice of difficulty while the connection on which
\* the peer's INIT (another difficulty) arrives is open
C38_HostKeepsOwnContent ==
    /\ mpMode = "HOST" /\ status = "PLAYING" /\ ConnOpen
    /\ difficulty \in PickedDifficulty /\ difficulty \notin HostDifficulty
    /\ sentences \in HostCorpus

\* ------------------------------------------------------------ C39
\* the step transmits a FINISH
FinishSent == \E i \in 1..Len(sent') : sent'[i].type = "FINISH"

SampleMax(history) ==
    LET wpms == {0} \cup {history[i].wpm : i \in 1..Len(history)}
    IN  CHOOSE m \in wpms : \A w \in wpms : m >= w

\* C40: after every step the peak is the largest wpm of the samples recorded so
\* far in the session (0 if there is none or all are 0); it goes down only
\* when a new session starts and clears it with the history; and every
\* AnalysisData carries the largest wpm of its own history as peakWpm, which
\* is at least its avgWpm.
C40_PeakIsRunningMax ==
    [][ /\ peakWpmRef' = SampleMax(historyRef')
        /\ (peakWpmRef' < peakWpmRef
              => historyRef' = <<>> /\ status' = "PLAYING" /\ startTime' = now')
        /\ (analysisData' # <<>>
              => /\ analysisData'[1].peakWpm = SampleMax(analysisData'[1].history)
                 /\ analysisData'[1].peakWpm >= analysisData'[1].avgWpm)
      ]_vars

\* a session ended with a peak above its final figure: the pace of an early
\* sample was higher than that of the last one
C40_PeakAboveAverage ==
    /\ status = "FINISHED" /\ analysisData # <<>>
    /\ analysisData[1].peakWpm > analysisData[1].avgWpm
    /\ analysisData[1].avgWpm > 0
    /\ \E i \in 1..Len(historyRef) : historyRef[i].wpm < peakWpmRef /\ historyRef[i].wpm > 0
    /\ historyRef[1].wpm < peakWpmRef

====
